---- MODULE Spec2Model ----
(***************************************************************************)
(* Model of the unified Harvest Notifier (src/unnamed/part_006, lines      *)
(* 1-511): the cadence scheduler, the date ranges, the personalized        *)
(* threshold engine, the eligibility filters, the shortfall analyzer and   *)
(* the app() run loop.                                                     *)
(*                                                                         *)
(* Calendar days are ordinals: day 0 is Sunday 2023-01-01.  A formatted    *)
(* 'YYYY-MM-DD' string is the record [y, m, d]; moment(string) is ToDay    *)
(* and format('YYYY-MM-DD') is Format, so that both conversions are        *)
(* computed.  JavaScript numbers that the code produces by arithmetic on   *)
(* hours are kept exact as integers at a fixed scale (see Units below).    *)
(***************************************************************************)
EXTENDS Integers, Sequences, FiniteSets, TLC

VARIABLES
  now,                    \* the wall clock's calendar day (what moment() returns)
  pc,                     \* position of the run / which function was applied
  ret,                    \* the value the applied function returned
  env,                    \* process.env: the two numeric settings
  harvestUsers,           \* the roster getHarvestUsers resolved to
  harvestTeamTimeReport,  \* the entries getHarvestTeamTimeReport resolved to
  notificationType,       \* the cadence being processed
  dateRange,              \* its {from, to}
  usersToNotify,          \* what analyzeHarvestData returned
  notificationsToRun,     \* app's list of cadences for this run
  idx,                    \* position in that list of the cadence being processed
  calls,                  \* the calls made to Harvest and to Slack, in order
  exit,                   \* how app() ended: process.exit code, return or throw
  shouldExit,             \* app's parameter
  ticks,                  \* midnights passed since app() was called
  startedOn               \* the day app() was called on

\* the variables only an app() run uses
runVars == <<notificationsToRun, idx, calls, exit, shouldExit, ticks, startedOn>>

vars == <<now, pc, ret, env, harvestUsers, harvestTeamTimeReport,
          notificationType, dateRange, usersToNotify, runVars>>

(***************************************************************************)
(* Bounds                                                                  *)
(***************************************************************************)
\* last calendar day the clock can start on (730 = 2024-12-31)
MaxToday == 730

\* longest roster and longest list of time entries handed to the analyzer
MaxUsers == 2
MaxEntries == 2

\* midnights that can pass while one run awaits its calls
MaxTicks == 1

\* most members in a Slack response
MaxMembers == 2

\* longest range (to - from, in days) handed to the threshold engine
MaxSpan == 34

\* the days a run can start on: the leap year 2024, 2024-01-01 = day 365
Days == 365..MaxToday

(***************************************************************************)
(* Calendar arithmetic of moment.js (default locale 'en': weeks start on   *)
(* Sunday, day() is 0 for Sunday .. 6 for Saturday)                        *)
(***************************************************************************)
IsLeap(y) == (y % 4 = 0 /\ y % 100 # 0) \/ y % 400 = 0

DaysInYear(y) == IF IsLeap(y) THEN 366 ELSE 365

DaysInMonth(y, m) ==
  IF m = 2 THEN (IF IsLeap(y) THEN 29 ELSE 28)
  ELSE IF m \in {4, 6, 9, 11} THEN 30 ELSE 31

RECURSIVE SplitYear(_, _)
\* <<year, day of the year (0-based)>> of a day counted from 1 January of y
SplitYear(n, y) ==
  IF n < DaysInYear(y) THEN <<y, n>> ELSE SplitYear(n - DaysInYear(y), y + 1)

RECURSIVE SplitMonth(_, _, _)
\* <<month, day of the month>> of the 0-based day n of year y, from month m
SplitMonth(n, y, m) ==
  IF n < DaysInMonth(y, m) THEN <<m, n + 1>>
  ELSE SplitMonth(n - DaysInMonth(y, m), y, m + 1)

\* moment.format('YYYY-MM-DD'): the calendar date of a day ordinal
Format(n) ==
  LET yd == SplitYear(n, 2023)
      md == SplitMonth(yd[2], yd[1], 1)
  IN  [y |-> yd[1], m |-> md[1], d |-> md[2]]

RECURSIVE DaysBeforeYear(_)
DaysBeforeYear(y) ==
  IF y <= 2023 THEN 0 ELSE DaysBeforeYear(y - 1) + DaysInYear(y - 1)

RECURSIVE DaysBeforeMonth(_, _)
DaysBeforeMonth(y, m) ==
  IF m <= 1 THEN 0 ELSE DaysBeforeMonth(y, m - 1) + DaysInMonth(y, m - 1)

\* moment('YYYY-MM-DD'): the day ordinal of a calendar date
ToDay(s) == DaysBeforeYear(s.y) + DaysBeforeMonth(s.y, s.m) + (s.d - 1)

\* moment.day(): 0 = Sunday .. 6 = Saturday
Day(n) == n % 7

\* moment.format('dddd')
FormatWeekday(n) ==
  <<"Sunday", "Monday", "Tuesday", "Wednesday", "Thursday", "Friday",
    "Saturday">>[Day(n) + 1]

\* moment.startOf('week') / endOf('week'), as days
StartOfWeek(n) == n - Day(n)
EndOfWeek(n) == n - Day(n) + 6

\* moment.startOf('month') / endOf('month'), as days
StartOfMonth(n) == ToDay([Format(n) EXCEPT !.d = 1])
EndOfMonth(n) ==
  LET s == Format(n) IN ToDay([s EXCEPT !.d = DaysInMonth(s.y, s.m)])

(***************************************************************************)
(* Cadence scheduler                                                       *)
(***************************************************************************)
NotificationTypes == {"daily", "weekly", "monthly"}

\* the tags handed to getDateRangeForNotification and to
\* calculatePersonalizedThreshold, three of them unknown (=== is exact)
TypeTags == NotificationTypes \cup {"unknown", "Daily", ""}

\* determineNotificationsToRun with the weekend test reduced to Sunday
determineNotificationsToRun_SundayOnly(currentDate) ==
  LET weekday == FormatWeekday(currentDate)
      isLastDayOfMonth == Format(currentDate) = Format(EndOfMonth(currentDate))
  IN  (IF weekday \notin {"Sunday"} THEN <<"daily">> ELSE <<>>)
      \o (IF weekday = "Friday" THEN <<"weekly">> ELSE <<>>)
      \o (IF isLastDayOfMonth THEN <<"monthly">> ELSE <<>>)

determineNotificationsToRun(currentDate) ==
  LET weekday == FormatWeekday(currentDate)
      isLastDayOfMonth == Format(currentDate) = Format(EndOfMonth(currentDate))
  IN  (IF weekday \notin {"Saturday", "Sunday"} THEN <<"daily">> ELSE <<>>)
      \o (IF weekday = "Friday" THEN <<"weekly">> ELSE <<>>)
      \o (IF isLastDayOfMonth THEN <<"monthly">> ELSE <<>>)

\* getDateRangeForNotification looking one day back on every day
getDateRangeForNotification_AlwaysYesterday(type, currentDate) ==
  IF type = "daily" THEN
    [threw |-> FALSE, from |-> Format(currentDate - 1), to |-> Format(currentDate - 1)]
  ELSE IF type = "weekly" THEN
    [threw |-> FALSE,
     from |-> Format(StartOfWeek(currentDate) + 1),
     to |-> Format(currentDate)]
  ELSE IF type = "monthly" THEN
    [threw |-> FALSE,
     from |-> Format(StartOfMonth(currentDate)),
     to |-> Format(EndOfMonth(currentDate))]
  ELSE
    [threw |-> TRUE, message |-> <<"Unknown notification type: ", type>>]

\* getDateRangeForNotification without the add(1, 'days') after startOf('week')
getDateRangeForNotification_WeekFromSunday(type, currentDate) ==
  IF type = "daily" THEN
    LET weekday == FormatWeekday(currentDate)
        dateToCheck ==
          IF weekday \in {"Tuesday", "Wednesday", "Thursday", "Friday"}
          THEN Format(currentDate - 1)
          ELSE Format(currentDate - 3)
    IN  [threw |-> FALSE, from |-> dateToCheck, to |-> dateToCheck]
  ELSE IF type = "weekly" THEN
    [threw |-> FALSE,
     from |-> Format(StartOfWeek(currentDate)),
     to |-> Format(currentDate)]
  ELSE IF type = "monthly" THEN
    [threw |-> FALSE,
     from |-> Format(StartOfMonth(currentDate)),
     to |-> Format(EndOfMonth(currentDate))]
  ELSE
    [threw |-> TRUE, message |-> <<"Unknown notification type: ", type>>]

\* getDateRangeForNotification with the month ending a fixed 30 days after its start
getDateRangeForNotification_ThirtyDayMonth(type, currentDate) ==
  IF type = "daily" THEN
    LET weekday == FormatWeekday(currentDate)
        dateToCheck ==
          IF weekday \in {"Tuesday", "Wednesday", "Thursday", "Friday"}
          THEN Format(currentDate - 1)
          ELSE Format(currentDate - 3)
    IN  [threw |-> FALSE, from |-> dateToCheck, to |-> dateToCheck]
  ELSE IF type = "weekly" THEN
    [threw |-> FALSE,
     from |-> Format(StartOfWeek(currentDate) + 1),
     to |-> Format(currentDate)]
  ELSE IF type = "monthly" THEN
    [threw |-> FALSE,
     from |-> Format(StartOfMonth(currentDate)),
     to |-> Format(StartOfMonth(currentDate) + 30)]
  ELSE
    [threw |-> TRUE, message |-> <<"Unknown notification type: ", type>>]

\* getDateRangeForNotification treating an unknown tag as the weekly cadence
getDateRangeForNotification_UnknownIsWeekly(type, currentDate) ==
  IF type = "daily" THEN
    LET weekday == FormatWeekday(currentDate)
        dateToCheck ==
          IF weekday \in {"Tuesday", "Wednesday", "Thursday", "Friday"}
          THEN Format(currentDate - 1)
          ELSE Format(currentDate - 3)
    IN  [threw |-> FALSE, from |-> dateToCheck, to |-> dateToCheck]
  ELSE IF type = "monthly" THEN
    [threw |-> FALSE,
     from |-> Format(StartOfMonth(currentDate)),
     to |-> Format(EndOfMonth(currentDate))]
  ELSE
    [threw |-> FALSE,
     from |-> Format(StartOfWeek(currentDate) + 1),
     to |-> Format(currentDate)]

getDateRangeForNotification(type, currentDate) ==
  IF type = "daily" THEN
    LET weekday == FormatWeekday(currentDate)
        dateToCheck ==
          IF weekday \in {"Tuesday", "Wednesday", "Thursday", "Friday"}
          THEN Format(currentDate - 1)
          ELSE Format(currentDate - 3)
    IN  [threw |-> FALSE, from |-> dateToCheck, to |-> dateToCheck]
  ELSE IF type = "weekly" THEN
    [threw |-> FALSE,
     from |-> Format(StartOfWeek(currentDate) + 1),
     to |-> Format(currentDate)]
  ELSE IF type = "monthly" THEN
    [threw |-> FALSE,
     from |-> Format(StartOfMonth(currentDate)),
     to |-> Format(EndOfMonth(currentDate))]
  ELSE
    [threw |-> TRUE, message |-> <<"Unknown notification type: ", type>>]


(***************************************************************************)
(* JavaScript values.  A value is a record [t, v]: a number (v at the      *)
(* scale its use states), null, undefined or NaN.                          *)
(***************************************************************************)
Num(v) == [t |-> "num", v |-> v]
JsNull == [t |-> "null", v |-> 0]
JsUndefined == [t |-> "undefined", v |-> 0]
JsNaN == [t |-> "NaN", v |-> 0]

\* ToBoolean of a number-or-nullish value
Truthy(x) == x.t = "num" /\ x.v # 0

\* ToNumber: null is 0, undefined is NaN
ToNumber(x) ==
  IF x.t = "null" THEN Num(0) ELSE IF x.t = "undefined" THEN JsNaN ELSE x

\* a < b, a <= b, a >= b, a > b on numbers: false as soon as one is NaN
JsLt(a, b) == a.t = "num" /\ b.t = "num" /\ a.v < b.v
JsLe(a, b) == a.t = "num" /\ b.t = "num" /\ a.v <= b.v
JsGe(a, b) == a.t = "num" /\ b.t = "num" /\ a.v >= b.v
JsGt(a, b) == a.t = "num" /\ b.t = "num" /\ a.v > b.v

(***************************************************************************)
(* process.env.  A setting is unset, or a string: an optional leading      *)
(* decimal number (in hundredths) followed by optional other characters.   *)
(***************************************************************************)
EnvUnset == [set |-> FALSE, hasNum |-> FALSE, centi |-> 0, junk |-> FALSE]
EnvText == [set |-> TRUE, hasNum |-> FALSE, centi |-> 0, junk |-> TRUE]
EnvNum(c) == [set |-> TRUE, hasNum |-> TRUE, centi |-> c, junk |-> FALSE]
EnvNumText(c) == [set |-> TRUE, hasNum |-> TRUE, centi |-> c, junk |-> TRUE]

\* parseFloat: the leading number of the string (in hundredths), else NaN
parseFloat(e) == IF e.set /\ e.hasNum THEN Num(e.centi) ELSE JsNaN

\* x || d
OrElse(x, d) == IF Truthy(x) THEN x ELSE d

(***************************************************************************)
(* Units.  Seconds for weekly_capacity; hundredths of an hour for          *)
(* total_hours and the settings; hundredths of a day for the expected      *)
(* working days; thresholds and summed hours in 1/50000 hour, the scale at *)
(* which base x workdays x expectedDays / 5 is an integer.                 *)
(***************************************************************************)
HoursToUnits(centi) == centi * 500

(***************************************************************************)
(* Workday calculator.  start, end: days (moments at 00:00).  endOf('week')*)
(* is Saturday 23:59:59, startOf('week') is Sunday 00:00; diff(.., 'days') *)
(* truncates toward zero.                                                  *)
(***************************************************************************)
\* a.diff(b, 'days') for moments given as <<day, second of the day>>
DiffDays(a, b) ==
  LET secs == (a[1] - b[1]) * 86400 + (a[2] - b[2])
  IN  IF secs >= 0 THEN secs \div 86400 ELSE -((-secs) \div 86400)

\* workday_count without the corrections for a Sunday start and a Saturday
\* end
workday_count_NoWeekendCorrection(start, end) ==
  LET first == <<EndOfWeek(start), 86399>>
      last == <<StartOfWeek(end), 0>>
      days5 == DiffDays(last, first) * 5
      wfirst == Day(first[1]) - Day(start)
      wlast == Day(end) - Day(last[1])
  IN  wfirst + (days5 \div 7) + wlast

workday_count(start, end) ==
  LET first == <<EndOfWeek(start), 86399>>
      last == <<StartOfWeek(end), 0>>
      days5 == DiffDays(last, first) * 5
      wfirst0 == Day(first[1]) - Day(start)
      wfirst == IF Day(start) = 0 THEN wfirst0 - 1 ELSE wfirst0
      wlast0 == Day(end) - Day(last[1])
      wlast == IF Day(end) = 6 THEN wlast0 - 1 ELSE wlast0
  IN  wfirst + (days5 \div 7) + wlast

(***************************************************************************)
(* Capacity normalizer, threshold engine, eligibility filter               *)
(***************************************************************************)
\* calculateExpectedWorkingDays with Math.floor in place of Math.round
calculateExpectedWorkingDays_Floor(weeklyCapacity, hoursPerDay) ==
  LET c == ToNumber(weeklyCapacity)
  IN  IF c.t # "num" THEN JsNaN
      ELSE Num((100 * c.v) \div (3600 * hoursPerDay))

\* Math.round(weeklyCapacity / 3600 / hoursPerDay * 100) / 100, in hundredths
calculateExpectedWorkingDays(weeklyCapacity, hoursPerDay) ==
  LET c == ToNumber(weeklyCapacity)
  IN  IF c.t # "num" THEN JsNaN
      ELSE Num((2 * 100 * c.v + 3600 * hoursPerDay) \div (2 * 3600 * hoursPerDay))

\* parseFloat(process.env.MISSING_HOURS_THRESHOLD) || 7.5, in hundredths
baseHoursPerDay(e) == OrElse(parseFloat(e.MISSING_HOURS_THRESHOLD), Num(750)).v

\* calculatePersonalizedThreshold with the thresholds of a full-time week
calculatePersonalizedThreshold_FullTime(user, type, from, to, e) ==
  LET base == baseHoursPerDay(e)
  IN  IF type = "daily" THEN Num(HoursToUnits(base))
      ELSE IF type = "weekly" THEN Num(HoursToUnits(base) * 5)
      ELSE IF type = "monthly" THEN
        Num(HoursToUnits(base) * workday_count(ToDay(from), ToDay(to)))
      ELSE Num(HoursToUnits(base))

\* calculatePersonalizedThreshold without the final fallback: an unknown
\* cadence is treated as the weekly one
calculatePersonalizedThreshold_NoFallback(user, type, from, to, e) ==
  LET base == baseHoursPerDay(e)
      expectedWorkingDaysPerWeek == calculateExpectedWorkingDays(user.weekly_capacity, 8)
  IN  IF type = "daily" THEN Num(HoursToUnits(base))
      ELSE IF type = "monthly" THEN
        LET totalWorkdaysInPeriod == workday_count(ToDay(from), ToDay(to))
        IN  IF expectedWorkingDaysPerWeek.t # "num" THEN JsNaN
            ELSE Num(base * totalWorkdaysInPeriod * expectedWorkingDaysPerWeek.v)
      ELSE IF expectedWorkingDaysPerWeek.t # "num" THEN JsNaN
      ELSE Num(base * expectedWorkingDaysPerWeek.v * 5)

calculatePersonalizedThreshold(user, type, from, to, e) ==
  LET base == baseHoursPerDay(e)
      expectedWorkingDaysPerWeek == calculateExpectedWorkingDays(user.weekly_capacity, 8)
  IN  IF type = "daily" THEN Num(HoursToUnits(base))
      ELSE IF type = "weekly" THEN
        IF expectedWorkingDaysPerWeek.t # "num" THEN JsNaN
        ELSE Num(base * expectedWorkingDaysPerWeek.v * 5)
      ELSE IF type = "monthly" THEN
        LET totalWorkdaysInPeriod == workday_count(ToDay(from), ToDay(to))
        IN  IF expectedWorkingDaysPerWeek.t # "num" THEN JsNaN
            ELSE Num(base * totalWorkdaysInPeriod * expectedWorkingDaysPerWeek.v)
      ELSE Num(HoursToUnits(base))

\* shouldIncludeInDailyNotifications with > in place of >=
shouldIncludeInDailyNotifications_Strict(user, e) ==
  LET dailyThreshold ==
        OrElse(parseFloat(e.DAILY_NOTIFICATION_WEEKLY_CAPACITY_THRESHOLD), Num(0))
      seconds == ToNumber(user.weekly_capacity)
  IN  JsGt([seconds EXCEPT !.v = @ * 100], Num(dailyThreshold.v * 3600))

\* userWeeklyCapacityHours >= dailyThreshold, both sides times 360000
shouldIncludeInDailyNotifications(user, e) ==
  LET dailyThreshold ==
        OrElse(parseFloat(e.DAILY_NOTIFICATION_WEEKLY_CAPACITY_THRESHOLD), Num(0))
      seconds == ToNumber(user.weekly_capacity)
  IN  JsGe([seconds EXCEPT !.v = @ * 100], Num(dailyThreshold.v * 3600))

\* shouldIncludeInNotifications that only rejects a negative capacity
shouldIncludeInNotifications_NegativeOnly(user) ==
  ~JsLt(ToNumber(user.weekly_capacity), Num(0))

shouldIncludeInNotifications(user) ==
  IF ~Truthy(user.weekly_capacity) \/ JsLe(ToNumber(user.weekly_capacity), Num(0))
  THEN FALSE
  ELSE JsGt(ToNumber(user.weekly_capacity), Num(0))

(***************************************************************************)
(* Shortfall analyzer: analyzeHarvestData after its two fetches resolved   *)
(***************************************************************************)
IsArray(x) == x.t = "array"
JsArray(s) == [t |-> "array", v |-> s]
NullArray == [t |-> "null", v |-> <<>>]
UndefinedArray == [t |-> "undefined", v |-> <<>>]

(***************************************************************************)
(* Strings and objects.  A string that the code takes apart or compares    *)
(* without regard to case is a sequence of one-character strings.  An      *)
(* object of a list carries, next to its properties, the field aliasOf:    *)
(* 0 for an object of its own (an object literal), the id of a roster      *)
(* user when the list element is that user's very object.                  *)
(***************************************************************************)
UpperCaseLetters ==
  <<"A", "B", "C", "D", "E", "F", "G", "H", "I", "J", "K", "L", "M",
    "N", "O", "P", "Q", "R", "S", "T", "U", "V", "W", "X", "Y", "Z">>

LowerCaseLetters ==
  <<"a", "b", "c", "d", "e", "f", "g", "h", "i", "j", "k", "l", "m",
    "n", "o", "p", "q", "r", "s", "t", "u", "v", "w", "x", "y", "z">>

\* String.prototype.toLowerCase
toLowerCase(s) ==
  [i \in 1..Len(s) |->
     IF \E k \in 1..Len(UpperCaseLetters) : UpperCaseLetters[k] = s[i]
     THEN LowerCaseLetters[CHOOSE k \in 1..Len(UpperCaseLetters) :
                             UpperCaseLetters[k] = s[i]]
     ELSE s[i]]

\* { ...object, ...props }: a new object with the properties of both, those
\* of props winning
Spread(object, props) == [aliasOf |-> 0] @@ props @@ object

\* the properties of a list element
PropertiesOf(x) == [f \in (DOMAIN x) \ {"aliasOf"} |-> x[f]]

\* the roster as it reads once the objects of the list have their present
\* properties: a roster user whose object is in the list reads as that element
RosterAfter(users, list) ==
  IF ~IsArray(users) THEN users
  ELSE JsArray(
         [k \in 1..Len(users.v) |->
            IF \E i \in 1..Len(list) : list[i].aliasOf = users.v[k].id
            THEN PropertiesOf(list[CHOOSE i \in 1..Len(list) :
                                     list[i].aliasOf = users.v[k].id])
            ELSE users.v[k]])

\* the reduce keeping only the hours of the entry it visits
SumHours_LastEntry(reports) ==
  IF reports = <<>> THEN 0
  ELSE reports[Len(reports)].total_hours

RECURSIVE SumHours(_)
\* timeReports.reduce((sum, report) => sum + report.total_hours, 0)
SumHours(reports) ==
  IF reports = <<>> THEN 0
  ELSE SumHours(SubSeq(reports, 1, Len(reports) - 1))
       + reports[Len(reports)].total_hours

\* harvestTeamTimeReport?.filter((t) => t.user_id === user.id) || []
ReportsOf(report, user) ==
  IF IsArray(report)
  THEN SelectSeq(report.v, LAMBDA t : t.user_id = user.id)
  ELSE <<>>

\* the forEach callback flagging a user whose hours equal the threshold
AnalyzeUser_AtMost(user, report, type, from, to, e) ==
  IF ~shouldIncludeInNotifications(user) THEN <<>>
  ELSE
    LET totalHours == Num(HoursToUnits(SumHours(ReportsOf(report, user))))
        personalizedThreshold ==
          calculatePersonalizedThreshold(user, type, from, to, e)
    IN  IF type = "daily" /\ ~shouldIncludeInDailyNotifications(user, e) THEN <<>>
        ELSE IF JsLe(totalHours, personalizedThreshold)
        THEN << Spread(user, [totalHours |-> totalHours,
                              expectedHours |-> personalizedThreshold]) >>
        ELSE <<>>

\* the forEach callback applying the daily capacity floor to every cadence
AnalyzeUser_FloorEveryCadence(user, report, type, from, to, e) ==
  IF ~shouldIncludeInNotifications(user) THEN <<>>
  ELSE
    LET totalHours == Num(HoursToUnits(SumHours(ReportsOf(report, user))))
        personalizedThreshold ==
          calculatePersonalizedThreshold(user, type, from, to, e)
    IN  IF ~shouldIncludeInDailyNotifications(user, e) THEN <<>>
        ELSE IF JsLt(totalHours, personalizedThreshold)
        THEN << Spread(user, [totalHours |-> totalHours,
                              expectedHours |-> personalizedThreshold]) >>
        ELSE <<>>

\* the forEach callback assigning the hours to the roster user and pushing
\* that very object
AnalyzeUser_PushUser(user, report, type, from, to, e) ==
  IF ~shouldIncludeInNotifications(user) THEN <<>>
  ELSE
    LET totalHours == Num(HoursToUnits(SumHours(ReportsOf(report, user))))
        personalizedThreshold ==
          calculatePersonalizedThreshold(user, type, from, to, e)
    IN  IF type = "daily" /\ ~shouldIncludeInDailyNotifications(user, e) THEN <<>>
        ELSE IF JsLt(totalHours, personalizedThreshold)
        THEN << [aliasOf |-> user.id]
                @@ [totalHours |-> totalHours,
                    expectedHours |-> personalizedThreshold]
                @@ user >>
        ELSE <<>>

\* one pass of the forEach callback: the records it pushes (none or one)
AnalyzeUser(user, report, type, from, to, e) ==
  IF ~shouldIncludeInNotifications(user) THEN <<>>
  ELSE
    LET totalHours == Num(HoursToUnits(SumHours(ReportsOf(report, user))))
        personalizedThreshold ==
          calculatePersonalizedThreshold(user, type, from, to, e)
    IN  IF type = "daily" /\ ~shouldIncludeInDailyNotifications(user, e) THEN <<>>
        ELSE IF JsLt(totalHours, personalizedThreshold)
        THEN << Spread(user, [totalHours |-> totalHours,
                              expectedHours |-> personalizedThreshold]) >>
        ELSE <<>>

RECURSIVE AnalyzeEach_Unshift(_, _, _, _, _, _)
\* the forEach loop putting each record at the front of the list
AnalyzeEach_Unshift(users, report, type, from, to, e) ==
  IF users = <<>> THEN <<>>
  ELSE AnalyzeEach_Unshift(Tail(users), report, type, from, to, e)
       \o AnalyzeUser(Head(users), report, type, from, to, e)

RECURSIVE AnalyzeEach(_, _, _, _, _, _)
AnalyzeEach(users, report, type, from, to, e) ==
  IF users = <<>> THEN <<>>
  ELSE AnalyzeUser(Head(users), report, type, from, to, e)
       \o AnalyzeEach(Tail(users), report, type, from, to, e)

analyzeHarvestData(users, report, type, from, to, e) ==
  IF ~IsArray(users) THEN <<>>
  ELSE AnalyzeEach(users.v, report, type, from, to, e)

(***************************************************************************)
(* The earlier analyzer, with one threshold for everybody                  *)
(* (part_006:573-668)                                                      *)
(***************************************************************************)
\* the number a setting converts to in process.env.X * 5 and in
\* totalHours < process.env.X: NaN unless the whole string is a number
EnvToNumber(x) ==
  IF x.set /\ x.hasNum /\ ~x.junk THEN Num(x.centi) ELSE JsNaN

\* threshold: the setting, the setting * 5, the setting * workday_count, or
\* left undefined for another cadence (every comparison with it is false)
GlobalThreshold(type, from, to, e) ==
  LET base == EnvToNumber(e.MISSING_HOURS_THRESHOLD)
  IN  IF base.t # "num" THEN JsNaN
      ELSE IF type = "daily" THEN Num(HoursToUnits(base.v))
      ELSE IF type = "weekly" THEN Num(HoursToUnits(base.v) * 5)
      ELSE IF type = "monthly" THEN
        Num(HoursToUnits(base.v) * workday_count(ToDay(from), ToDay(to)))
      ELSE JsNaN

\* the earlier callback flagging a total equal to the threshold as well
GlobalAnalyzeUser_AtMost(user, report, threshold) ==
  LET totalHours == Num(HoursToUnits(SumHours(ReportsOf(report, user))))
  IN  IF JsLt(totalHours, threshold) \/ totalHours = threshold
      THEN << Spread(user, [totalHours |-> totalHours]) >>
      ELSE <<>>

\* one pass of the earlier forEach callback
GlobalAnalyzeUser(user, report, threshold) ==
  LET totalHours == Num(HoursToUnits(SumHours(ReportsOf(report, user))))
  IN  IF JsLt(totalHours, threshold)
      THEN << Spread(user, [totalHours |-> totalHours]) >>
      ELSE <<>>

RECURSIVE GlobalAnalyzeEach(_, _, _)
GlobalAnalyzeEach(users, report, threshold) ==
  IF users = <<>> THEN <<>>
  ELSE GlobalAnalyzeUser(Head(users), report, threshold)
       \o GlobalAnalyzeEach(Tail(users), report, threshold)

\* the earlier analyzeHarvestData, from the two fetched values on
analyzeHarvestDataGlobal(users, report, type, from, to, e) ==
  IF ~IsArray(users) THEN <<>>
  ELSE GlobalAnalyzeEach(users.v, report, GlobalThreshold(type, from, to, e))

(***************************************************************************)
(* Slack utilities (src/utils/slack-api.js)                                *)
(***************************************************************************)
\* a string property that is present, and one that is missing
Str(s) == [t |-> "string", v |-> s]
NoStr == [t |-> "undefined", v |-> <<>>]

\* (x || '')
OrEmpty(x) == IF x.t = "string" THEN x.v ELSE <<>>

\* getSlackUsers, from the parsed response on:
\* data.members.filter((user) => !user.deleted && !user.is_bot)
getSlackUsers(data) ==
  IF ~IsArray(data.members)
  THEN [threw |-> TRUE, message |-> "TypeError"]
  ELSE [threw |-> FALSE,
        val |-> SelectSeq(data.members.v,
                          LAMBDA user : ~user.deleted /\ ~user.is_bot)]

\* `${user.first_name} ${user.last_name}`
FullName(user) == user.first_name \o <<" ">> \o user.last_name

\* the predicate handed to slackUsers.find
FindPredicate(slackUser, user) ==
  \/ toLowerCase(FullName(user))
       \in {toLowerCase(slackUser.profile.real_name_normalized),
            toLowerCase(slackUser.profile.display_name_normalized)}
  \/ toLowerCase(OrEmpty(slackUser.profile.email)) = toLowerCase(user.email)

\* slackUsers.find(predicate): the position of the first element the
\* predicate holds for, 0 when there is none
Find(slackUsers, user) ==
  IF \E i \in 1..Len(slackUsers) : FindPredicate(slackUsers[i], user)
  THEN CHOOSE i \in 1..Len(slackUsers) :
         /\ FindPredicate(slackUsers[i], user)
         /\ \A j \in 1..(i - 1) : ~FindPredicate(slackUsers[j], user)
  ELSE 0

\* the text `<@${id}> (Hours logged: ${hours})` (name empty) or
\* `${name} (Hours logged: ${hours})` (mention empty)
MentionText(id, hours) == [mention |-> id, name |-> <<>>, hours |-> hours]
NameText(name, hours) == [mention |-> "", name |-> name, hours |-> hours]

\* matchUsersWithSlack: every object of usersToNotify gets its slackUser
\* text assigned and is returned, in place
matchUsersWithSlack(users, slackUsers) ==
  [i \in 1..Len(users) |->
     LET user == users[i]
         found == Find(slackUsers, user)
     IN  [slackUser |->
            IF found # 0
            THEN MentionText(slackUsers[found].id, user.totalHours)
            ELSE NameText(FullName(user), user.totalHours)]
         @@ [f \in (DOMAIN user) \ {"slackUser"} |-> user[f]]]

(***************************************************************************)
(* SpecSched: the scheduler's two functions applied on every day           *)
(***************************************************************************)
NoRet == [fn |-> "none"]

\* no app() run: the functions are applied on their own
NoRun ==
  /\ notificationsToRun = <<>>
  /\ idx = 0
  /\ calls = <<>>
  /\ exit = "none"
  /\ shouldExit = FALSE
  /\ ticks = 0
  /\ startedOn = now


InitSched ==
  /\ now \in Days
  /\ pc = "ready"
  /\ ret = NoRet
  /\ env = [MISSING_HOURS_THRESHOLD |-> EnvUnset,
            DAILY_NOTIFICATION_WEEKLY_CAPACITY_THRESHOLD |-> EnvUnset]
  /\ harvestUsers = JsArray(<<>>)
  /\ harvestTeamTimeReport = JsArray(<<>>)
  /\ notificationType = "none"
  /\ dateRange = [threw |-> FALSE, from |-> Format(now), to |-> Format(now)]
  /\ usersToNotify = <<>>
  /\ NoRun

CallDetermine ==
  /\ pc = "ready"
  /\ pc' = "returned"
  /\ ret' = [fn |-> "determineNotificationsToRun",
             val |-> determineNotificationsToRun(now)]
  /\ UNCHANGED <<now, env, harvestUsers, harvestTeamTimeReport,
                 notificationType, dateRange, usersToNotify, runVars>>

CallGetDateRange ==
  /\ pc = "ready"
  /\ \E t \in TypeTags :
       ret' = [fn |-> "getDateRangeForNotification", type |-> t,
               val |-> getDateRangeForNotification(t, now)]
  /\ pc' = "returned"
  /\ UNCHANGED <<now, env, harvestUsers, harvestTeamTimeReport,
                 notificationType, dateRange, usersToNotify, runVars>>

NextSched == CallDetermine \/ CallGetDateRange

SpecSched == InitSched /\ [][NextSched]_vars

(***************************************************************************)
(* Inputs of the threshold engine and of the analyzer                      *)
(***************************************************************************)
\* weekly_capacity values: absent, invalid, 100 s, 20 h, 24 h, 25 h and 40 h
\* a week
Capacities ==
  {JsNull, JsUndefined, Num(-3600), Num(0), Num(100),
   Num(72000), Num(86400), Num(90000), Num(144000)}

\* MISSING_HOURS_THRESHOLD: unset, "abc", "0", "8", "6h"
MissingHoursSettings == {EnvUnset, EnvText, EnvNum(0), EnvNum(800), EnvNumText(600)}

\* DAILY_NOTIFICATION_WEEKLY_CAPACITY_THRESHOLD: unset, "abc", "24", "40", "20h"
DailyCapacitySettings ==
  {EnvUnset, EnvText, EnvNum(2400), EnvNum(4000), EnvNumText(2000)}

Envs ==
  [MISSING_HOURS_THRESHOLD : MissingHoursSettings,
   DAILY_NOTIFICATION_WEEKLY_CAPACITY_THRESHOLD : DailyCapacitySettings]

\* first name, last name and email of the people of the roster
People ==
  << [first_name |-> <<"A", "n", "n">>, last_name |-> <<"L", "e", "e">>,
      email |-> <<"a", "l", "@", "x">>],
     [first_name |-> <<"B", "o">>, last_name |-> <<"R", "a", "y">>,
      email |-> <<"B", "R", "@", "x">>],
     [first_name |-> <<"C", "y">>, last_name |-> <<"O", "r", "r">>,
      email |-> <<"c", "o", "@", "x">>] >>

\* the Harvest user with id i and weekly capacity c
User(i, c) ==
  [id |-> i, weekly_capacity |-> c] @@ People[((i - 1) % Len(People)) + 1]

\* the ranges {from, from + span}, from on each day of the first week of 2024
ThresholdRanges ==
  {[threw |-> FALSE, from |-> Format(f), to |-> Format(f + k)] :
     f \in 365..371, k \in 0..MaxSpan}

(***************************************************************************)
(* SpecThreshold: the threshold engine and the eligibility filters applied *)
(* to every user, cadence, range and configuration                         *)
(***************************************************************************)
InitThreshold ==
  /\ now = 365
  /\ pc = "ready"
  /\ ret = NoRet
  /\ env \in Envs
  /\ harvestUsers = JsArray(<<>>)
  /\ harvestTeamTimeReport = JsArray(<<>>)
  /\ notificationType = "none"
  /\ dateRange \in ThresholdRanges
  /\ usersToNotify = <<>>
  /\ NoRun

CallThreshold ==
  /\ pc = "ready"
  /\ \E c \in Capacities, t \in TypeTags :
       ret' = [fn |-> "calculatePersonalizedThreshold", user |-> User(1, c),
               type |-> t,
               val |-> calculatePersonalizedThreshold(
                         User(1, c), t, dateRange.from, dateRange.to, env)]
  /\ pc' = "returned"
  /\ UNCHANGED <<now, env, harvestUsers, harvestTeamTimeReport,
                 notificationType, dateRange, usersToNotify, runVars>>

CallShouldIncludeDaily ==
  /\ pc = "ready"
  /\ \E c \in Capacities :
       ret' = [fn |-> "shouldIncludeInDailyNotifications", user |-> User(1, c),
               val |-> shouldIncludeInDailyNotifications(User(1, c), env)]
  /\ pc' = "returned"
  /\ UNCHANGED <<now, env, harvestUsers, harvestTeamTimeReport,
                 notificationType, dateRange, usersToNotify, runVars>>

CallShouldInclude ==
  /\ pc = "ready"
  /\ \E c \in Capacities :
       ret' = [fn |-> "shouldIncludeInNotifications", user |-> User(1, c),
               val |-> shouldIncludeInNotifications(User(1, c))]
  /\ pc' = "returned"
  /\ UNCHANGED <<now, env, harvestUsers, harvestTeamTimeReport,
                 notificationType, dateRange, usersToNotify, runVars>>

\* workday_count(moment(from), moment(to)) on the range of the state
CallWorkdayCount ==
  /\ pc = "ready"
  /\ ret' = [fn |-> "workday_count",
             val |-> workday_count(ToDay(dateRange.from), ToDay(dateRange.to))]
  /\ pc' = "returned"
  /\ UNCHANGED <<now, env, harvestUsers, harvestTeamTimeReport,
                 notificationType, dateRange, usersToNotify, runVars>>

\* weekly capacities handed to calculateExpectedWorkingDays: those of the
\* users and 1 s, 180 s (0.05 h) and 100000 s (27.78 h)
ExpectedDaysCapacities == Capacities \cup {Num(1), Num(180), Num(100000)}

\* the hoursPerDay argument: omitted, 6, 8 or 10 hours
HoursPerDayArguments == {JsUndefined, Num(6), Num(8), Num(10)}

\* the default parameter value hoursPerDay = 8
DefaultHoursPerDay(hoursPerDay) ==
  IF hoursPerDay.t = "undefined" THEN 8 ELSE hoursPerDay.v

CallExpectedWorkingDays ==
  /\ pc = "ready"
  /\ \E c \in ExpectedDaysCapacities, h \in HoursPerDayArguments :
       ret' = [fn |-> "calculateExpectedWorkingDays",
               weeklyCapacity |-> c, hoursPerDay |-> h,
               val |-> calculateExpectedWorkingDays(c, DefaultHoursPerDay(h))]
  /\ pc' = "returned"
  /\ UNCHANGED <<now, env, harvestUsers, harvestTeamTimeReport,
                 notificationType, dateRange, usersToNotify, runVars>>

NextThreshold ==
  \/ CallThreshold
  \/ CallShouldIncludeDaily
  \/ CallShouldInclude
  \/ CallWorkdayCount
  \/ CallExpectedWorkingDays

SpecThreshold == InitThreshold /\ [][NextThreshold]_vars

(***************************************************************************)
(* SpecAnalyze: analyzeHarvestData applied to every roster, list of time   *)
(* entries, cadence and configuration                                      *)
(***************************************************************************)
\* sequences over S of length at most n
SeqsUpTo(S, n) == UNION {[1..k -> S] : k \in 0..n}

\* capacities of the roster's users
RosterCapacities ==
  {JsNull, JsUndefined, Num(-3600), Num(0), Num(86400), Num(144000)}

\* rosters: user i of the roster has id i; or no array at all
Rosters ==
  {JsArray([i \in 1..Len(cs) |-> User(i, cs[i])]) :
     cs \in SeqsUpTo(RosterCapacities, MaxUsers)}
  \cup {NullArray, UndefinedArray}

\* time entries of 4 h and of 90 h, for the ids 1 and 2
Entries == [user_id : {1, 2}, total_hours : {400, 9000}]

Reports ==
  {JsArray(r) : r \in SeqsUpTo(Entries, MaxEntries)}
  \cup {NullArray, UndefinedArray}

AnalyzeEnvs ==
  [MISSING_HOURS_THRESHOLD : {EnvUnset, EnvNum(800)},
   DAILY_NOTIFICATION_WEEKLY_CAPACITY_THRESHOLD :
     {EnvUnset, EnvNum(2400), EnvNum(4000), EnvNum(4500)}]

InitAnalyze ==
  /\ now = 395
  /\ pc = "ready"
  /\ ret = NoRet
  /\ env \in AnalyzeEnvs
  /\ harvestUsers \in Rosters
  /\ harvestTeamTimeReport \in Reports
  /\ notificationType \in NotificationTypes
  /\ dateRange = getDateRangeForNotification(notificationType, now)
  /\ usersToNotify = <<>>
  /\ NoRun

CallAnalyze ==
  /\ pc = "ready"
  /\ usersToNotify' =
       analyzeHarvestData(harvestUsers, harvestTeamTimeReport,
                          notificationType, dateRange.from, dateRange.to, env)
  /\ harvestUsers' = RosterAfter(harvestUsers, usersToNotify')
  /\ pc' = "returned"
  /\ UNCHANGED <<now, ret, env, harvestTeamTimeReport,
                 notificationType, dateRange, runVars>>

NextAnalyze == CallAnalyze

SpecAnalyze == InitAnalyze /\ [][NextAnalyze]_vars

(***************************************************************************)
(* SpecSlack: getSlackUsers and matchUsersWithSlack applied to every       *)
(* response and to every list of flagged users and of Slack users          *)
(***************************************************************************)
Profile(real, display, email) ==
  [real_name_normalized |-> real, display_name_normalized |-> display,
   email |-> email]

Member(id, deleted, bot, profile) ==
  [id |-> id, deleted |-> deleted, is_bot |-> bot, profile |-> profile]

\* U1 bears the name of Ann Lee in lower case; U2 has Bo Ray as display
\* name and no email; U3 has only the email of Ann Lee, in upper case; U4
\* matches nobody
ActiveMembers ==
  {Member("U1", FALSE, FALSE,
          Profile(<<"a", "n", "n", " ", "l", "e", "e">>, <<"a", "l">>,
                  Str(<<"x", "@", "x">>))),
   Member("U2", FALSE, FALSE,
          Profile(<<"B", "o", "b">>, <<"B", "o", " ", "R", "a", "y">>, NoStr)),
   Member("U3", FALSE, FALSE,
          Profile(<<"A", "l">>, <<"a", "l">>, Str(<<"A", "L", "@", "X">>))),
   Member("U4", FALSE, FALSE, Profile(<<"Z", "e", "d">>, <<"z">>, NoStr))}

\* a deleted member, a bot, and a deleted bot
OtherMembers ==
  {Member("U5", TRUE, FALSE, Profile(<<"O", "l", "d">>, <<"o">>, NoStr)),
   Member("U6", FALSE, TRUE, Profile(<<"B", "o", "t">>, <<"b">>, NoStr)),
   Member("U7", TRUE, TRUE, Profile(<<"B", "o", "t">>, <<"b">>, NoStr))}

\* the parsed users.list responses: with members, or without the property
SlackResponses ==
  {[ok |-> TRUE, members |-> JsArray(m)] :
     m \in SeqsUpTo(ActiveMembers \cup OtherMembers, MaxMembers)}
  \cup {[ok |-> k, members |-> UndefinedArray] : k \in BOOLEAN}

\* the flagged users: Ann Lee and Bo Ray with no hours or with 4 h
FlaggedUsers ==
  {Spread(User(i, Num(144000)),
          [totalHours |-> Num(h), expectedHours |-> Num(375000)]) :
     i \in 1..2, h \in {0, 200000}}

InitSlack ==
  /\ now = 365
  /\ pc = "ready"
  /\ ret = NoRet
  /\ env = [MISSING_HOURS_THRESHOLD |-> EnvUnset,
            DAILY_NOTIFICATION_WEEKLY_CAPACITY_THRESHOLD |-> EnvUnset]
  /\ harvestUsers = JsArray(<<>>)
  /\ harvestTeamTimeReport = JsArray(<<>>)
  /\ notificationType = "none"
  /\ dateRange = [threw |-> FALSE, from |-> Format(now), to |-> Format(now)]
  /\ usersToNotify = <<>>
  /\ NoRun

CallGetSlackUsers ==
  /\ pc = "ready"
  /\ \E data \in SlackResponses :
       ret' = [fn |-> "getSlackUsers", data |-> data,
               val |-> getSlackUsers(data)]
  /\ pc' = "returned"
  /\ UNCHANGED <<now, env, harvestUsers, harvestTeamTimeReport,
                 notificationType, dateRange, usersToNotify, runVars>>

CallMatchUsersWithSlack ==
  /\ pc = "ready"
  /\ \E users \in SeqsUpTo(FlaggedUsers, MaxUsers),
        slackUsers \in SeqsUpTo(ActiveMembers, MaxMembers) :
       /\ usersToNotify' = matchUsersWithSlack(users, slackUsers)
       /\ ret' = [fn |-> "matchUsersWithSlack", users |-> users,
                  slackUsers |-> slackUsers, val |-> usersToNotify']
  /\ pc' = "returned"
  /\ UNCHANGED <<now, env, harvestUsers, harvestTeamTimeReport,
                 notificationType, dateRange, runVars>>

NextSlack == CallGetSlackUsers \/ CallMatchUsersWithSlack

SpecSlack == InitSlack /\ [][NextSlack]_vars

(***************************************************************************)
(* Spec: one app() run.  Each action is one synchronous stretch of the     *)
(* run, from the settling of the call it awaits to the next call it makes. *)
(***************************************************************************)
\* what getHarvestUsers resolves to: no user, a full-time user, or a user
\* without capacity and a 24-hour user
RunRosters ==
  {JsArray(<<>>),
   JsArray(<<User(1, Num(144000))>>),
   JsArray(<<User(1, Num(0)), User(2, Num(86400))>>),
   NullArray, UndefinedArray}

\* what getHarvestTeamTimeReport resolves to: nothing logged, or hours enough
\* for any cadence logged by users 1 and 2
RunReports ==
  {JsArray(<<>>),
   JsArray(<<[user_id |-> 1, total_hours |-> 20000],
             [user_id |-> 2, total_hours |-> 20000]>>)}

\* what getSlackUsers resolves to: nobody, the Slack user of Ann Lee, or
\* one who matches nobody
RunSlackUsers ==
  {<<>>} \cup {<<m>> : m \in {x \in ActiveMembers : x.id \in {"U1", "U4"}}}

\* a call as the log keeps it: the function and the cadence and range it serves
Call(api, type, range) ==
  [api |-> api, type |-> type, from |-> range.from, to |-> range.to]

\* a catch block inside the for loop: the rejection of the awaited call is
\* logged and the loop goes on with the next cadence
Fail_NextCadence ==
  /\ ret' = [fn |-> pc, type |-> notificationType, val |-> "rejected"]
  /\ IF idx < Len(notificationsToRun)
     THEN /\ idx' = idx + 1
          /\ notificationType' = notificationsToRun[idx + 1]
          /\ dateRange' =
               getDateRangeForNotification(notificationsToRun[idx + 1], now)
          /\ calls' = Append(calls, [api |-> "getHarvestUsers",
                                     type |-> notificationType',
                                     from |-> dateRange'.from,
                                     to |-> dateRange'.to])
          /\ pc' = "getHarvestUsers"
          /\ exit' = exit
     ELSE /\ pc' = "exited"
          /\ exit' = IF shouldExit THEN "exit1" ELSE "threw"
          /\ UNCHANGED <<idx, notificationType, dateRange, calls>>
  /\ UNCHANGED <<now, env, harvestUsers, harvestTeamTimeReport, usersToNotify,
                 notificationsToRun, shouldExit, ticks, startedOn>>

\* the awaited call (the one pc names) rejects; the catch block of app:
\* log, process.exit(1) or rethrow
Fail ==
  /\ ret' = [fn |-> pc, type |-> notificationType, val |-> "rejected"]
  /\ pc' = "exited"
  /\ exit' = IF shouldExit THEN "exit1" ELSE "threw"
  /\ UNCHANGED <<now, env, harvestUsers, harvestTeamTimeReport,
                 notificationType, dateRange, usersToNotify,
                 notificationsToRun, idx, calls, shouldExit, ticks, startedOn>>

\* runNotification(list[i]) up to its first await: the range, then the
\* roster fetch is started
RunNotification(list, i) ==
  /\ idx' = i
  /\ notificationType' = list[i]
  /\ dateRange' = getDateRangeForNotification(list[i], now)
  /\ calls' = Append(calls, Call("getHarvestUsers", list[i],
                                getDateRangeForNotification(list[i], now)))
  /\ pc' = "getHarvestUsers"
  /\ exit' = exit

\* the for loop stepping over the cadence that follows
NextNotification_SkipOne ==
  IF idx + 1 < Len(notificationsToRun)
  THEN RunNotification(notificationsToRun, idx + 2)
  ELSE /\ pc' = "exited"
       /\ exit' = IF shouldExit THEN "exit0" ELSE "returned"
       /\ UNCHANGED <<idx, notificationType, dateRange, calls>>

\* the for loop after runNotification(list[idx]) returned
NextNotification ==
  IF idx < Len(notificationsToRun)
  THEN RunNotification(notificationsToRun, idx + 1)
  ELSE /\ pc' = "exited"
       /\ exit' = IF shouldExit THEN "exit0" ELSE "returned"
       /\ UNCHANGED <<idx, notificationType, dateRange, calls>>

Init ==
  /\ now \in Days
  /\ pc = "start"
  /\ ret = NoRet
  /\ env \in AnalyzeEnvs
  /\ harvestUsers = UndefinedArray
  /\ harvestTeamTimeReport = UndefinedArray
  /\ notificationType = "none"
  /\ dateRange = [threw |-> FALSE, from |-> Format(now), to |-> Format(now)]
  /\ usersToNotify = <<>>
  /\ notificationsToRun = <<>>
  /\ idx = 0
  /\ calls = <<>>
  /\ exit = "none"
  /\ shouldExit \in BOOLEAN
  /\ ticks = 0
  /\ startedOn = now

\* app(): determineNotificationsToRun, then the first runNotification
App ==
  /\ pc = "start"
  /\ notificationsToRun' = determineNotificationsToRun(now)
  /\ IF notificationsToRun' = <<>>
     THEN /\ pc' = "exited"
          /\ exit' = IF shouldExit THEN "exit0" ELSE "returned"
          /\ UNCHANGED <<idx, notificationType, dateRange, calls>>
     ELSE RunNotification(notificationsToRun', 1)
  /\ UNCHANGED <<now, ret, env, harvestUsers, harvestTeamTimeReport,
                 usersToNotify, shouldExit, ticks, startedOn>>

\* getHarvestUsers resolved: the time report fetch is started
HarvestUsersResolved ==
  /\ pc = "getHarvestUsers"
  /\ \E r \in RunRosters : harvestUsers' = r
  /\ calls' = Append(calls, Call("getHarvestTeamTimeReport", notificationType, dateRange))
  /\ pc' = "getHarvestTeamTimeReport"
  /\ UNCHANGED <<now, ret, env, harvestTeamTimeReport, notificationType,
                 dateRange, usersToNotify, notificationsToRun, idx, exit,
                 shouldExit, ticks, startedOn>>

HarvestUsersRejected ==
  /\ pc = "getHarvestUsers"
  /\ Fail

\* getHarvestTeamTimeReport resolved, slackNotify not testing
\* usersToNotify.length
TimeReportResolved_AlwaysNotify ==
  /\ pc = "getHarvestTeamTimeReport"
  /\ \E r \in RunReports : harvestTeamTimeReport' = r
  /\ usersToNotify' =
       analyzeHarvestData(harvestUsers, harvestTeamTimeReport',
                          notificationType, dateRange.from, dateRange.to, env)
  /\ harvestUsers' = RosterAfter(harvestUsers, usersToNotify')
  /\ ret' = [fn |-> "analyzeHarvestData", type |-> notificationType,
             users |-> harvestUsers, report |-> harvestTeamTimeReport',
             val |-> usersToNotify']
  /\ calls' = Append(calls, Call("getSlackUsers", notificationType, dateRange))
  /\ pc' = "getSlackUsers"
  /\ UNCHANGED <<idx, notificationType, dateRange, exit>>
  /\ UNCHANGED <<now, env, notificationsToRun, shouldExit, ticks, startedOn>>

\* getHarvestTeamTimeReport resolved: the analysis, then slackNotify up to
\* its first await, or past it to the next cadence when nobody is short
TimeReportResolved ==
  /\ pc = "getHarvestTeamTimeReport"
  /\ \E r \in RunReports : harvestTeamTimeReport' = r
  /\ usersToNotify' =
       analyzeHarvestData(harvestUsers, harvestTeamTimeReport',
                          notificationType, dateRange.from, dateRange.to, env)
  /\ harvestUsers' = RosterAfter(harvestUsers, usersToNotify')
  /\ ret' = [fn |-> "analyzeHarvestData", type |-> notificationType,
             users |-> harvestUsers, report |-> harvestTeamTimeReport',
             val |-> usersToNotify']
  /\ IF usersToNotify' # <<>>
     THEN /\ calls' = Append(calls, Call("getSlackUsers", notificationType, dateRange))
          /\ pc' = "getSlackUsers"
          /\ UNCHANGED <<idx, notificationType, dateRange, exit>>
     ELSE NextNotification
  /\ UNCHANGED <<now, env, notificationsToRun, shouldExit, ticks, startedOn>>

TimeReportRejected ==
  /\ pc = "getHarvestTeamTimeReport"
  /\ Fail

\* getSlackUsers resolved: the users are matched, the message is built and
\* sent
SlackUsersResolved ==
  /\ pc = "getSlackUsers"
  /\ \E slackUsers \in RunSlackUsers :
       usersToNotify' = matchUsersWithSlack(usersToNotify, slackUsers)
  /\ harvestUsers' = RosterAfter(harvestUsers, usersToNotify')
  /\ calls' = Append(calls, Call("sendSlackMessage", notificationType, dateRange))
  /\ pc' = "sendSlackMessage"
  /\ UNCHANGED <<now, ret, env, harvestTeamTimeReport,
                 notificationType, dateRange,
                 notificationsToRun, idx, exit, shouldExit, ticks, startedOn>>

SlackUsersRejected ==
  /\ pc = "getSlackUsers"
  /\ Fail

\* sendSlackMessage resolved: this cadence is completed, the next one starts
SendSlackMessageResolved ==
  /\ pc = "sendSlackMessage"
  /\ NextNotification
  /\ UNCHANGED <<now, ret, env, harvestUsers, harvestTeamTimeReport,
                 usersToNotify, notificationsToRun, shouldExit, ticks,
                 startedOn>>

SendSlackMessageRejected ==
  /\ pc = "sendSlackMessage"
  /\ Fail

\* midnight passes while the run awaits a call
Midnight ==
  /\ pc \in {"getHarvestUsers", "getHarvestTeamTimeReport", "getSlackUsers",
             "sendSlackMessage"}
  /\ ticks < MaxTicks
  /\ now' = now + 1
  /\ ticks' = ticks + 1
  /\ UNCHANGED <<pc, ret, env, harvestUsers, harvestTeamTimeReport,
                 notificationType, dateRange, usersToNotify,
                 notificationsToRun, idx, calls, exit, shouldExit, startedOn>>

Next ==
  \/ App
  \/ HarvestUsersResolved
  \/ HarvestUsersRejected
  \/ TimeReportResolved
  \/ TimeReportRejected
  \/ SlackUsersResolved
  \/ SlackUsersRejected
  \/ SendSlackMessageResolved
  \/ SendSlackMessageRejected
  \/ Midnight

Spec == Init /\ [][Next]_vars

(***************************************************************************)
(* SpecNotify: slackNotify called on its own with every list of users, for *)
(* every cadence; its awaits settle as in an app() run                     *)
(***************************************************************************)
\* the usersToNotify argument: missing, empty, or up to MaxUsers flagged users
NotifyArguments ==
  {NullArray, UndefinedArray}
  \cup {JsArray(users) : users \in SeqsUpTo(FlaggedUsers, MaxUsers)}

InitNotify ==
  /\ now = 369
  /\ pc = "slackNotify"
  /\ ret = NoRet
  /\ env = [MISSING_HOURS_THRESHOLD |-> EnvUnset,
            DAILY_NOTIFICATION_WEEKLY_CAPACITY_THRESHOLD |-> EnvUnset]
  /\ harvestUsers = JsArray(<<>>)
  /\ harvestTeamTimeReport = JsArray(<<>>)
  /\ notificationType \in NotificationTypes
  /\ dateRange = getDateRangeForNotification(notificationType, now)
  /\ usersToNotify = <<>>
  /\ notificationsToRun = <<notificationType>>
  /\ idx = 1
  /\ calls = <<>>
  /\ exit = "none"
  /\ shouldExit = FALSE
  /\ ticks = 0
  /\ startedOn = now

\* slackNotify calling getSlackUsers whatever the list
SlackNotify_NoGuard ==
  /\ pc = "slackNotify"
  /\ \E arg \in NotifyArguments :
       /\ ret' = [fn |-> "slackNotify", usersToNotify |-> arg]
       /\ usersToNotify' = arg.v
  /\ calls' = Append(calls, Call("getSlackUsers", notificationType, dateRange))
  /\ pc' = "getSlackUsers"
  /\ exit' = exit
  /\ UNCHANGED <<now, env, harvestUsers, harvestTeamTimeReport,
                 notificationType, dateRange, notificationsToRun, idx,
                 shouldExit, ticks, startedOn>>

\* slackNotify up to its first await: getSlackUsers is called only when
\* usersToNotify && usersToNotify.length
SlackNotify ==
  /\ pc = "slackNotify"
  /\ \E arg \in NotifyArguments :
       /\ ret' = [fn |-> "slackNotify", usersToNotify |-> arg]
       /\ IF IsArray(arg) /\ Len(arg.v) # 0
          THEN /\ usersToNotify' = arg.v
               /\ calls' = Append(calls, Call("getSlackUsers", notificationType,
                                             dateRange))
               /\ pc' = "getSlackUsers"
               /\ exit' = exit
          ELSE /\ pc' = "exited"
               /\ exit' = "returned"
               /\ UNCHANGED <<usersToNotify, calls>>
  /\ UNCHANGED <<now, env, harvestUsers, harvestTeamTimeReport,
                 notificationType, dateRange, notificationsToRun, idx,
                 shouldExit, ticks, startedOn>>

NextNotify ==
  \/ SlackNotify
  \/ SlackUsersResolved
  \/ SlackUsersRejected
  \/ SendSlackMessageResolved
  \/ SendSlackMessageRejected

SpecNotify == InitNotify /\ [][NextNotify]_vars

(***************************************************************************)
(* Properties of the cadence scheduler (checked under SpecSched)           *)
(***************************************************************************)
\* the elements of a sequence
Range(s) == {s[i] : i \in 1..Len(s)}

IsWeekend(n) == Day(n) \in {0, 6}
IsFriday(n) == Day(n) = 5
\* today is the last day of its month: tomorrow is the first of a month
IsLastDayOfMonth(n) == Format(n + 1).d = 1

Determined == ret.fn = "determineNotificationsToRun"
Ranged(t) == ret.fn = "getDateRangeForNotification" /\ ret.type = t

C8_DailyRange ==
  (Ranged("daily") /\ ~IsWeekend(now)) =>
    /\ ~ret.val.threw
    /\ ret.val.from = ret.val.to
    /\ LET d == ToDay(ret.val.from)
       IN  /\ Format(d) = ret.val.from
           /\ Day(now) \in 2..5 => d = now - 1
           /\ Day(now) = 1 => d = now - 3 /\ IsFriday(d)
           /\ d < now /\ ~IsWeekend(d)
           /\ \A x \in (d + 1)..(now - 1) : IsWeekend(x)

\* a Monday whose daily range is the Friday before it
C8_Witness ==
  /\ Ranged("daily") /\ Day(now) = 1
  /\ ToDay(ret.val.from) = now - 3

\* C9: the weekly range runs from the Monday of the week containing today
\* (weeks run Sunday to Saturday, moment's default locale) to today; on a
\* Friday it is exactly Monday to Friday of that week.
C9_WeeklyRange ==
  Ranged("weekly") =>
    /\ ~ret.val.threw
    /\ ret.val.to = Format(now)
    /\ LET f == ToDay(ret.val.from)
       IN  /\ Format(f) = ret.val.from
           /\ Day(f) = 1
           /\ \E sunday \in (now - 6)..now :
                /\ Day(sunday) = 0
                /\ f \in sunday..(sunday + 6)
           /\ IsFriday(now) => /\ f = now - 4
                               /\ ToDay(ret.val.to) = now
                               /\ \A x \in f..now : ~IsWeekend(x)

\* a Friday whose weekly range starts four days earlier
C9_Witness ==
  /\ Ranged("weekly") /\ IsFriday(now)
  /\ ToDay(ret.val.from) = now - 4 /\ ToDay(ret.val.to) = now

\* C10: the monthly range runs from the first to the last day of today's
\* month; whenever the monthly cadence is active, to is today.
C10_MonthlyRange ==
  Ranged("monthly") =>
    /\ ~ret.val.threw
    /\ ret.val.from.d = 1
    /\ ret.val.from.y = Format(now).y /\ ret.val.from.m = Format(now).m
    /\ ret.val.to.y = Format(now).y /\ ret.val.to.m = Format(now).m
    /\ IsLastDayOfMonth(ToDay(ret.val.to))
    /\ ToDay(ret.val.from) <= now /\ now <= ToDay(ret.val.to)
    /\ "monthly" \in Range(determineNotificationsToRun(now))
         => ret.val.to = Format(now)

\* the range of a month asked for on its last day, and on an earlier day
C10_Witness ==
  /\ Ranged("monthly")
  /\ "monthly" \in Range(determineNotificationsToRun(now))
  /\ ret.val.to = Format(now) /\ ret.val.from # ret.val.to

(***************************************************************************)
(* Properties of the threshold engine and the eligibility filter (checked  *)
(* under SpecThreshold)                                                    *)
(***************************************************************************)
Applied(f) == pc = "returned" /\ ret.fn = f

\* the number a JavaScript product yields: NaN as soon as a factor is NaN
JsTimes(a, b) == IF a.t = "num" /\ b.t = "num" THEN Num(a.v * b.v) ELSE JsNaN

\* C2: calculatePersonalizedThreshold returns the base b for daily whatever
\* the capacity, b x calculateExpectedWorkingDays(weekly_capacity) for weekly
\* and b x workday_count(from, to) x calculateExpectedWorkingDays / 5 for
\* monthly.  (b in hundredths of an hour, the days in hundredths, the result
\* in 1/50000 hour: b x days / 100 hours is b x days x 5 units.)
C2_Threshold ==
  Applied("calculatePersonalizedThreshold") =>
    LET b == baseHoursPerDay(env)
        days == calculateExpectedWorkingDays(ret.user.weekly_capacity, 8)
        workdays == workday_count(ToDay(dateRange.from), ToDay(dateRange.to))
    IN  /\ ret.type = "daily" => ret.val = Num(b * 500)
        /\ ret.type = "weekly" => ret.val = JsTimes(Num(b * 5), days)
        /\ ret.type = "monthly" =>
             /\ ret.val = JsTimes(Num(b * workdays), days)
             /\ ret.val.t = "num" => ret.val.v * 5 = (b * 5 * days.v) * workdays

\* a 24-hour-a-week user under the default base of 7.5 h: 22.5 h for the week
\* and, over the ten workdays of 2024-01-01 .. 2024-01-12, 45 h for the month
C2_Witness ==
  /\ Applied("calculatePersonalizedThreshold")
  /\ ret.user.weekly_capacity = Num(86400)
  /\ ~env.MISSING_HOURS_THRESHOLD.set
  /\ dateRange.from = [y |-> 2024, m |-> 1, d |-> 1]
  /\ dateRange.to = [y |-> 2024, m |-> 1, d |-> 12]
  /\ ret.type = "monthly"
  /\ ret.val = Num(45 * 50000)
  /\ calculatePersonalizedThreshold(ret.user, "weekly", dateRange.from,
                                    dateRange.to, env) = Num(1125000)

\* the daily capacity floor the configuration states, in hundredths of an hour
ConfiguredDailyFloor(e) ==
  LET x == e.DAILY_NOTIFICATION_WEEKLY_CAPACITY_THRESHOLD
  IN  IF x.set /\ x.hasNum THEN x.centi ELSE 0

\* C4: shouldIncludeInDailyNotifications is true iff weekly_capacity / 3600
\* is at least the configured floor; a user exactly at the floor is included;
\* an unset or unparseable floor is 0, so every positive capacity is included.
C4_DailyFloor ==
  Applied("shouldIncludeInDailyNotifications") =>
    LET c == ret.user.weekly_capacity
        floor == ConfiguredDailyFloor(env)
        setting == env.DAILY_NOTIFICATION_WEEKLY_CAPACITY_THRESHOLD
    IN  /\ c.t = "num" => (ret.val <=> c.v * 100 >= floor * 3600)
        /\ c.t = "null" => (ret.val <=> 0 >= floor)
        /\ c.t = "undefined" => ~ret.val
        /\ (c.t = "num" /\ c.v * 100 = floor * 3600) => ret.val
        /\ (~setting.set \/ ~setting.hasNum) =>
             /\ floor = 0
             /\ (c.t = "num" /\ c.v > 0) => ret.val

\* the 24-hour user against a floor of 24 hours: exactly at it, and included
C4_Witness ==
  /\ Applied("shouldIncludeInDailyNotifications")
  /\ ret.user.weekly_capacity = Num(86400)
  /\ env.DAILY_NOTIFICATION_WEEKLY_CAPACITY_THRESHOLD = EnvNum(2400)
  /\ ret.val

(***************************************************************************)
(* Properties of the analyzer (checked under SpecAnalyze)                  *)
(***************************************************************************)
Analyzed == pc = "returned"

RECURSIVE HoursUpTo(_, _, _)
\* the hours of the first n entries that carry the id, in hundredths
HoursUpTo(entries, id, n) ==
  IF n = 0 THEN 0
  ELSE HoursUpTo(entries, id, n - 1)
       + (IF entries[n].user_id = id THEN entries[n].total_hours ELSE 0)

\* the hours logged for the id, in 1/50000 hour
LoggedUnits(id) ==
  IF IsArray(harvestTeamTimeReport)
  THEN 500 * HoursUpTo(harvestTeamTimeReport.v, id, Len(harvestTeamTimeReport.v))
  ELSE 0

RecordsOf(id) == {i \in 1..Len(usersToNotify) : usersToNotify[i].id = id}

\* C1: analyzeHarvestData returns a record for a user iff the user passes
\* shouldIncludeInNotifications, passes shouldIncludeInDailyNotifications
\* when the cadence is daily, and the sum of the user's hours is strictly
\* below the user's personalized threshold; the record carries that sum as
\* totalHours and that threshold as expectedHours.
C1_Shortfalls ==
  (Analyzed /\ notificationType \in NotificationTypes) =>
    /\ ~IsArray(harvestUsers) => usersToNotify = <<>>
    /\ \A r \in Range(usersToNotify) :
         IsArray(harvestUsers) /\ r.id \in 1..Len(harvestUsers.v)
    /\ IsArray(harvestUsers) =>
         \A k \in 1..Len(harvestUsers.v) :
           LET user == harvestUsers.v[k]
               threshold ==
                 calculatePersonalizedThreshold(
                   user, notificationType, dateRange.from, dateRange.to, env)
               short ==
                 /\ shouldIncludeInNotifications(user)
                 /\ notificationType = "daily" =>
                      shouldIncludeInDailyNotifications(user, env)
                 /\ threshold.t = "num"
                 /\ LoggedUnits(user.id) < threshold.v
           IN  /\ (RecordsOf(user.id) # {}) <=> short
               /\ \A i \in RecordsOf(user.id) :
                    /\ usersToNotify[i].totalHours = Num(LoggedUnits(user.id))
                    /\ usersToNotify[i].expectedHours = threshold
                    /\ usersToNotify[i].weekly_capacity = user.weekly_capacity

\* a weekly analysis of two full-time users under a base of 8 h: the one with
\* 4 h logged is returned, the one with 4 h + 90 h is not
C1_Witness ==
  /\ Analyzed /\ notificationType = "weekly"
  /\ env.MISSING_HOURS_THRESHOLD = EnvNum(800)
  /\ IsArray(harvestUsers) /\ Len(harvestUsers.v) = 2
  /\ harvestUsers.v[1].weekly_capacity = Num(144000)
  /\ harvestUsers.v[2].weekly_capacity = Num(144000)
  /\ IsArray(harvestTeamTimeReport)
  /\ LoggedUnits(1) = 400 * 500 /\ LoggedUnits(2) > 40 * 50000
  /\ Len(usersToNotify) = 1
  /\ usersToNotify[1].id = 1
  /\ usersToNotify[1].totalHours = Num(4 * 50000)
  /\ usersToNotify[1].expectedHours = Num(40 * 50000)

\* the capacity is null, undefined, zero or negative
NoCapacity(c) == c.t \in {"null", "undefined"} \/ (c.t = "num" /\ c.v <= 0)

\* C3: a user whose weekly_capacity is null, undefined, zero or negative is
\* never in the output of analyzeHarvestData, for any cadence, hours and
\* daily capacity floor; every user with a positive weekly_capacity passes
\* shouldIncludeInNotifications.
C3_NoCapacityExcluded ==
  (Analyzed /\ IsArray(harvestUsers)) =>
    /\ \A r \in Range(usersToNotify) : ~NoCapacity(r.weekly_capacity)
    /\ \A k \in 1..Len(harvestUsers.v) :
         LET user == harvestUsers.v[k]
         IN  /\ NoCapacity(user.weekly_capacity) => RecordsOf(user.id) = {}
             /\ ~NoCapacity(user.weekly_capacity) =>
                  shouldIncludeInNotifications(user)

\* a daily analysis in which a user without capacity and without hours is
\* left out while the full-time user next to it is returned
C3_Witness ==
  /\ Analyzed /\ notificationType = "daily"
  /\ IsArray(harvestUsers) /\ Len(harvestUsers.v) = 2
  /\ harvestUsers.v[1].weekly_capacity = Num(0)
  /\ harvestUsers.v[2].weekly_capacity = Num(144000)
  /\ LoggedUnits(1) = 0 /\ LoggedUnits(2) = 0
  /\ Len(usersToNotify) = 1 /\ usersToNotify[1].id = 2

\* C5: for the weekly and the monthly cadence the output of
\* analyzeHarvestData is the same under every value of
\* DAILY_NOTIFICATION_WEEKLY_CAPACITY_THRESHOLD.
C5_FloorOnlyDaily ==
  (Analyzed /\ notificationType \in {"weekly", "monthly"}) =>
    \A other \in DailyCapacitySettings :
      analyzeHarvestData(
        harvestUsers, harvestTeamTimeReport, notificationType,
        dateRange.from, dateRange.to,
        [env EXCEPT !.DAILY_NOTIFICATION_WEEKLY_CAPACITY_THRESHOLD = other])
      = usersToNotify

\* a weekly analysis returning a 24-hour user whom a floor of 40 hours keeps
\* out of the daily analysis of the same data
C5_Witness ==
  /\ Analyzed /\ notificationType = "weekly"
  /\ env.DAILY_NOTIFICATION_WEEKLY_CAPACITY_THRESHOLD = EnvNum(4000)
  /\ \E i \in 1..Len(usersToNotify) :
       usersToNotify[i].weekly_capacity = Num(86400)
  /\ \A r \in Range(analyzeHarvestData(
                      harvestUsers, harvestTeamTimeReport, "daily",
                      dateRange.from, dateRange.to, env)) :
       r.weekly_capacity # Num(86400)

(***************************************************************************)
(* Properties of an app() run (checked under Spec)                         *)
(***************************************************************************)
\* C7: on a Saturday or a Sunday determineNotificationsToRun returns the
\* empty list and the app() run calls neither Harvest nor Slack.
C7_NoWeekendRun ==
  (pc # "start" /\ IsWeekend(startedOn)) =>
    /\ determineNotificationsToRun(startedOn) = <<>>
    /\ notificationsToRun = <<>>
    /\ calls = <<>>

(***************************************************************************)
(* Further properties of the scheduler (checked under SpecSched)           *)
(***************************************************************************)
\* C11: for every date today, whatever its day of the week, and every
\* cadence among daily, weekly and monthly, the returned range has
\* from <= to.
C11_FromBeforeTo ==
  (ret.fn = "getDateRangeForNotification" /\ ret.type \in NotificationTypes) =>
    /\ ~ret.val.threw
    /\ ToDay(ret.val.from) <= ToDay(ret.val.to)

\* C17: for every tag other than daily, weekly and monthly
\* getDateRangeForNotification throws 'Unknown notification type: <tag>'
\* and returns no range.
C17_UnknownTypeThrows ==
  (ret.fn = "getDateRangeForNotification" /\ ret.type \notin NotificationTypes) =>
    /\ ret.val.threw
    /\ ret.val.message = <<"Unknown notification type: ", ret.type>>
    /\ DOMAIN ret.val = {"threw", "message"}

\* the tag 'Daily' (not the lower-case daily) makes the call throw
C17_Witness ==
  /\ Ranged("Daily")
  /\ ret.val.threw
  /\ ret.val.message = <<"Unknown notification type: ", "Daily">>

(***************************************************************************)
(* Further properties of the workday calculator, the capacity normalizer   *)
(* and the threshold engine (checked under SpecThreshold)                  *)
(***************************************************************************)
\* the Monday-to-Friday days of the inclusive interval [a, b]
WeekdaysIn(a, b) == {x \in a..b : Day(x) \in 1..5}

\* C12: for all dates start <= end, workday_count(start, end) is the number
\* of Monday-to-Friday days in [start, end]: 1 for a single weekday, 0 for a
\* single weekend day, 5 for Monday to Friday of one week and 5 x n for n
\* whole calendar weeks.
C12_WorkdayCount ==
  Applied("workday_count") =>
    LET start == ToDay(dateRange.from)
        end == ToDay(dateRange.to)
    IN  /\ start <= end
        /\ ret.val = Cardinality(WeekdaysIn(start, end))
        /\ (start = end /\ ~IsWeekend(start)) => ret.val = 1
        /\ (start = end /\ IsWeekend(start)) => ret.val = 0
        /\ (Day(start) = 1 /\ end = start + 4) => ret.val = 5
        /\ \A n \in 1..5 :
             (Day(start) \in {0, 1} /\ end = start + 7 * n - 1)
               => ret.val = 5 * n

\* the three whole weeks from a Sunday to a Saturday count 15 working days
C12_Witness ==
  /\ Applied("workday_count")
  /\ Day(ToDay(dateRange.from)) = 0
  /\ ToDay(dateRange.to) = ToDay(dateRange.from) + 20
  /\ ret.val = 15

\* C18: for every cadence tag other than daily, weekly and monthly
\* calculatePersonalizedThreshold returns the base daily hours (what it
\* returns for daily) and raises no error, whatever the user's capacity.
C18_UnknownCadenceBase ==
  (Applied("calculatePersonalizedThreshold")
     /\ ret.type \notin NotificationTypes) =>
    /\ ret.val = Num(500 * baseHoursPerDay(env))
    /\ ret.val = calculatePersonalizedThreshold(
                   ret.user, "daily", dateRange.from, dateRange.to, env)

\* the tag 'Daily' for a 24-hour user under a base of 8 h over a range of
\* five workdays: 8 h, neither the 24 h of the week nor the month's
C18_Witness ==
  /\ Applied("calculatePersonalizedThreshold") /\ ret.type = "Daily"
  /\ ret.user.weekly_capacity = Num(86400)
  /\ env.MISSING_HOURS_THRESHOLD = EnvNum(800)
  /\ ret.val = Num(8 * 50000)
  /\ calculatePersonalizedThreshold(ret.user, "weekly", dateRange.from,
                                    dateRange.to, env) = Num(24 * 50000)

\* C19: the base daily hours used by calculatePersonalizedThreshold (its
\* result for daily) equal the configured MISSING_HOURS_THRESHOLD for every
\* configured value that parses as a number and equal 7.5 when the setting
\* is unset or unparseable.
C19_BaseIsConfigured ==
  (Applied("calculatePersonalizedThreshold") /\ ret.type = "daily") =>
    LET setting == env.MISSING_HOURS_THRESHOLD
    IN  /\ (setting.set /\ setting.hasNum) =>
             ret.val = Num(500 * setting.centi)
        /\ (~setting.set \/ ~setting.hasNum) => ret.val = Num(500 * 750)

\* the absolute value of an integer
Abs(x) == IF x < 0 THEN -x ELSE x

\* C20: for every weekly capacity c in seconds and hoursPerDay h > 0,
\* calculateExpectedWorkingDays(c, h) is c / 3600 / h rounded to the nearest
\* hundredth (it is a whole number v of hundredths with
\* |v / 100 - c / (3600 h)| <= 1 / 200), h being 8 when omitted: 144000
\* gives 5, 86400 gives 3, 72000 gives 2.5 and 144000 with h = 10 gives 4.
C20_ExpectedWorkingDays ==
  (Applied("calculateExpectedWorkingDays") /\ ret.weeklyCapacity.t = "num") =>
    LET c == ret.weeklyCapacity.v
        h == IF ret.hoursPerDay.t = "num" THEN ret.hoursPerDay.v ELSE 8
    IN  /\ h > 0
        /\ ret.val.t = "num"
        /\ Abs(36 * h * ret.val.v - c) <= 18 * h
        /\ ret.val = calculateExpectedWorkingDays(ret.weeklyCapacity, h)
        /\ (c = 144000 /\ h = 8) => ret.val = Num(500)
        /\ (c = 86400 /\ h = 8) => ret.val = Num(300)
        /\ (c = 72000 /\ h = 8) => ret.val = Num(250)
        /\ (c = 144000 /\ h = 10) => ret.val = Num(400)

\* 100000 s a week at 10 hours a day: 2.777... days, returned as 2.78
C20_Witness ==
  /\ Applied("calculateExpectedWorkingDays")
  /\ ret.weeklyCapacity = Num(100000) /\ ret.hoursPerDay = Num(10)
  /\ ret.val = Num(278)

\* C29: for every user passing shouldIncludeInNotifications and every
\* positive base, the weekly threshold and the monthly threshold over a range
\* with at least one workday are strictly positive, so such a user with no
\* hours logged is flagged in the weekly and the monthly cadence.
C29_PositiveThreshold ==
  (/\ Applied("calculatePersonalizedThreshold")
   /\ ret.type \in {"weekly", "monthly"}
   /\ shouldIncludeInNotifications(ret.user)
   /\ baseHoursPerDay(env) > 0
   /\ workday_count(ToDay(dateRange.from), ToDay(dateRange.to)) >= 1) =>
    /\ ret.val.t = "num"
    /\ ret.val.v > 0
    /\ AnalyzeUser(ret.user, JsArray(<<>>), ret.type, dateRange.from,
                   dateRange.to, env) # <<>>

(***************************************************************************)
(* Further properties of the analyzer (checked under SpecAnalyze)          *)
(***************************************************************************)
\* every ordering of a sequence
Orderings(s) ==
  {[i \in 1..Len(s) |-> s[f[i]]] : f \in Permutations(1..Len(s))}

\* the entries of a report (none when the report is not an array)
EntriesOf(report) == IF IsArray(report) THEN report.v ELSE <<>>

C15_MissingReportNoShortfall ==
  (Analyzed /\ IsArray(harvestUsers) /\ ~IsArray(harvestTeamTimeReport)) =>
    usersToNotify = <<>>

\* the position in the roster of the user with the id
PositionOf(id) == CHOOSE k \in 1..Len(harvestUsers.v) : harvestUsers.v[k].id = id

\* C21: the list returned by analyzeHarvestData keeps the relative order of
\* the roster (it is an order-preserving sub-list of it) and holds at most
\* one record per roster element.
C21_StableOrder ==
  (Analyzed /\ IsArray(harvestUsers)) =>
    /\ \A i \in 1..Len(usersToNotify) :
         /\ \E k \in 1..Len(harvestUsers.v) :
              harvestUsers.v[k].id = usersToNotify[i].id
         /\ usersToNotify[i].weekly_capacity
              = harvestUsers.v[PositionOf(usersToNotify[i].id)].weekly_capacity
    /\ \A i, j \in 1..Len(usersToNotify) :
         i < j => PositionOf(usersToNotify[i].id) < PositionOf(usersToNotify[j].id)
    /\ \A k \in 1..Len(harvestUsers.v) :
         Cardinality(RecordsOf(harvestUsers.v[k].id)) <= 1
    /\ Len(usersToNotify) <= Len(harvestUsers.v)

\* both users of a roster of two are returned, the first one first
C21_Witness ==
  /\ Analyzed /\ IsArray(harvestUsers)
  /\ Len(harvestUsers.v) = 2 /\ Len(usersToNotify) = 2
  /\ usersToNotify[1].id = harvestUsers.v[1].id
  /\ usersToNotify[2].id = harvestUsers.v[2].id
  /\ usersToNotify[1].weekly_capacity # usersToNotify[2].weekly_capacity

\* the ids and the hours of the flagged users, in order
Flagged(list) ==
  [i \in 1..Len(list) |-> [id |-> list[i].id, totalHours |-> list[i].totalHours]]

\* every user of the roster has 40 hours a week and the base is a positive
\* number
FullTimeRoster ==
  /\ Analyzed /\ IsArray(harvestUsers)
  /\ \A k \in 1..Len(harvestUsers.v) :
       harvestUsers.v[k].weekly_capacity = Num(144000)
  /\ EnvToNumber(env.MISSING_HOURS_THRESHOLD).t = "num"
  /\ EnvToNumber(env.MISSING_HOURS_THRESHOLD).v > 0

\* what the earlier analyzer returns for the inputs of the analysis
GlobalResult ==
  analyzeHarvestDataGlobal(harvestUsers, harvestTeamTimeReport,
                           notificationType, dateRange.from, dateRange.to, env)

\* C30 as stated: for a roster of users with weekly_capacity 144000 and a
\* positive MISSING_HOURS_THRESHOLD the personalized analyzer and the earlier
\* global-threshold analyzer flag the same users with the same totalHours for
\* every cadence, range and set of time entries.
C30_SameAsGlobal ==
  FullTimeRoster => Flagged(usersToNotify) = Flagged(GlobalResult)

\* C30 amended: they do so when, in addition, the daily capacity floor is
\* unset or at most 40 hours; for the weekly and the monthly cadence they do
\* so under every floor.
C30_SameAsGlobalUnderFloor ==
  (/\ FullTimeRoster
   /\ \/ notificationType # "daily"
      \/ ConfiguredDailyFloor(env) <= 4000) =>
    Flagged(usersToNotify) = Flagged(GlobalResult)

\* a daily analysis under a base of 8 h and a floor of at most 40 h: of two
\* full-time users the one with 4 h is flagged by both analyzers, the one
\* with 90 h by neither
C30_Witness ==
  /\ FullTimeRoster /\ notificationType = "daily"
  /\ ConfiguredDailyFloor(env) <= 4000
  /\ Len(harvestUsers.v) = 2
  /\ Len(usersToNotify) = 1
  /\ Flagged(GlobalResult) = Flagged(usersToNotify)
  /\ usersToNotify[1].totalHours = Num(HoursToUnits(400))

(***************************************************************************)
(* Properties of the Slack utilities (checked under SpecSlack)             *)
(***************************************************************************)
\* C25: getSlackUsers returns exactly the members that are neither deleted
\* nor bots, and returns the empty list without raising an error when the
\* response has no members property.
C25_SlackUsers ==
  Applied("getSlackUsers") =>
    /\ ~ret.val.threw
    /\ IsArray(ret.data.members) =>
         ret.val.val = SelectSeq(ret.data.members.v,
                                 LAMBDA m : ~m.deleted /\ ~m.is_bot)
    /\ ~IsArray(ret.data.members) => ret.val.val = <<>>

\* the positions of the Slack users matching the user by real name, by
\* display name and by email
ByRealName(slackUsers, user) ==
  {k \in 1..Len(slackUsers) :
     toLowerCase(slackUsers[k].profile.real_name_normalized)
       = toLowerCase(FullName(user))}

ByDisplayName(slackUsers, user) ==
  {k \in 1..Len(slackUsers) :
     toLowerCase(slackUsers[k].profile.display_name_normalized)
       = toLowerCase(FullName(user))}

ByEmail(slackUsers, user) ==
  {k \in 1..Len(slackUsers) :
     toLowerCase(OrEmpty(slackUsers[k].profile.email))
       = toLowerCase(user.email)}

Least(S) == CHOOSE k \in S : \A other \in S : k <= other

\* the Slack user the criteria select when taken in order, 0 when none
SelectedInOrder(slackUsers, user) ==
  IF ByRealName(slackUsers, user) # {} THEN Least(ByRealName(slackUsers, user))
  ELSE IF ByDisplayName(slackUsers, user) # {}
  THEN Least(ByDisplayName(slackUsers, user))
  ELSE IF ByEmail(slackUsers, user) # {} THEN Least(ByEmail(slackUsers, user))
  ELSE 0

\* C26: for every flagged user matchUsersWithSlack selects the Slack user by
\* the criteria in order, real name, display name, email (case-insensitive),
\* so that a match by name is preferred over another Slack user's match by
\* email; a matched user is rendered as a mention of that Slack user's id, an
\* unmatched one as their full name, and the result has the length and the
\* order of the input.
C26_MatchInOrder ==
  Applied("matchUsersWithSlack") =>
    /\ Len(ret.val) = Len(ret.users)
    /\ \A i \in 1..Len(ret.users) :
         LET user == ret.users[i]
             k == SelectedInOrder(ret.slackUsers, user)
         IN  /\ ret.val[i].id = user.id
             /\ ret.val[i].totalHours = user.totalHours
             /\ k # 0 => ret.val[i].slackUser
                           = MentionText(ret.slackUsers[k].id, user.totalHours)
             /\ k = 0 => ret.val[i].slackUser
                           = NameText(FullName(user), user.totalHours)

(***************************************************************************)
(* Further properties of an app() run (checked under Spec)                 *)
(***************************************************************************)
SlackApis == {"getSlackUsers", "sendSlackMessage"}

\* the analysis of the run's latest completed fetches
AnalysisDone == ret.fn = "analyzeHarvestData"

\* C14: when the roster handed to analyzeHarvestData is null, undefined or
\* not an array, it returns the empty list without raising an error (the run
\* goes on to the next cadence or ends normally) and the run sends no Slack
\* message for that cadence.
C14_NoRosterNoMessage ==
  (AnalysisDone /\ ~IsArray(ret.users)) =>
    /\ ret.val = <<>>
    /\ \A c \in Range(calls) : c.type = ret.type => c.api \notin SlackApis
    /\ exit \notin {"exit1", "threw"}
    /\ pc = "exited" \/ notificationType # ret.type

\* a run whose only cadence got a null roster and which ended normally after
\* the time report fetch, with no call to Slack
C14_Witness ==
  /\ AnalysisDone /\ ret.users = NullArray
  /\ pc = "exited" /\ exit \in {"exit0", "returned"}
  /\ Len(notificationsToRun) = 1
  /\ Len(calls) = 2
  /\ calls[2].api = "getHarvestTeamTimeReport"

FetchApis == {"getHarvestUsers", "getHarvestTeamTimeReport"}

\* the roster fetch or the time-report fetch of a cadence has failed
FetchFailed == ret.fn \in FetchApis /\ ret.val = "rejected"

\* C16: if the roster fetch or the time-report fetch of a cadence fails, no
\* Slack message is sent for that cadence, no later cadence of the run is
\* started, and the error reaches the caller of app: exit code 1 when
\* shouldExit is true, the error rethrown otherwise.
C16_FetchFailureEndsRun ==
  FetchFailed =>
    /\ \A c \in Range(calls) : c.type = ret.type => c.api \notin SlackApis
    /\ ret.type = notificationsToRun[idx]
    /\ calls[Len(calls)] = Call(ret.fn, ret.type, dateRange)
    /\ \A c \in Range(calls) :
         \E i \in 1..idx : c.type = notificationsToRun[i]
    /\ pc = "exited"
    /\ ~ENABLED Next
    /\ exit = IF shouldExit THEN "exit1" ELSE "threw"

\* the roster fetch of the first of three cadences failed under shouldExit:
\* one call was made and the process exits with code 1
C16_Witness ==
  /\ FetchFailed /\ ret.fn = "getHarvestUsers"
  /\ shouldExit /\ exit = "exit1"
  /\ notificationsToRun = <<"daily", "weekly", "monthly">>
  /\ idx = 1
  /\ Len(calls) = 1

\* the analysis of the cadence being processed has returned
AnalysedThisCadence ==
  /\ AnalysisDone /\ ret.type = notificationType
  /\ pc \in {"getSlackUsers", "sendSlackMessage", "exited"}

\* C22: analysing the same roster, entries, cadence, range and configuration
\* again yields a deep-equal list, and neither the analysis nor the Slack
\* matching that follows it modifies a roster user object or a time-entry
\* object.
C22_NoMutation ==
  AnalysedThisCadence =>
    /\ harvestUsers = ret.users
    /\ harvestTeamTimeReport = ret.report
    /\ analyzeHarvestData(harvestUsers, harvestTeamTimeReport, notificationType,
                          dateRange.from, dateRange.to, env) = ret.val

\* Ann Lee was flagged and matched with her Slack user: the list's object
\* carries the mention, the roster user has no such property
C22_Witness ==
  /\ AnalysedThisCadence /\ pc = "sendSlackMessage"
  /\ Len(usersToNotify) = 1
  /\ usersToNotify[1].slackUser = MentionText("U1", usersToNotify[1].totalHours)
  /\ IsArray(harvestUsers) /\ Len(harvestUsers.v) = 1
  /\ harvestUsers.v[1].id = usersToNotify[1].id
  /\ "slackUser" \notin DOMAIN harvestUsers.v[1]
  /\ "totalHours" \notin DOMAIN harvestUsers.v[1]

(***************************************************************************)
(* Properties of slackNotify (checked under SpecNotify)                    *)
(***************************************************************************)
\* slackNotify was called and none of its calls has failed
Notifying == ret.fn = "slackNotify"

\* the calls made to the api
CallsTo(api) == {i \in 1..Len(calls) : calls[i].api = api}

\* C23: slackNotify calls neither getSlackUsers nor sendSlackMessage when
\* the list of users to notify is empty or missing, and sends exactly one
\* message when the list is not empty and no call fails.
C23_NotifyOnlyWhenShort ==
  Notifying =>
    LET arg == ret.usersToNotify
        some == IsArray(arg) /\ Len(arg.v) > 0
    IN  /\ ~some => /\ calls = <<>>
                    /\ pc = "exited" /\ exit = "returned"
        /\ Cardinality(CallsTo("sendSlackMessage")) <= 1
        /\ (some /\ pc = "exited") =>
             /\ exit = "returned"
             /\ Cardinality(CallsTo("getSlackUsers")) = 1
             /\ Cardinality(CallsTo("sendSlackMessage")) = 1
             /\ calls[Len(calls)].api = "sendSlackMessage"

\* slackNotify returned after one message about two flagged users
C23_Witness ==
  /\ Notifying /\ pc = "exited"
  /\ Len(ret.usersToNotify.v) = 2
  /\ Len(calls) = 2
  /\ calls[2].api = "sendSlackMessage"

(***************************************************************************)
(* Properties of the order and the dates of an app() run (checked under    *)
(* Spec)                                                                   *)
(***************************************************************************)
\* C24: on the last day of every month a run performs the daily, the weekly
\* and the monthly notification.
C24_MonthEndRunsAll ==
  (pc # "start" /\ IsLastDayOfMonth(startedOn)) =>
    notificationsToRun = <<"daily", "weekly", "monthly">>

\* the place of a cadence in the order daily, weekly, monthly
Rank(t) == CHOOSE k \in 1..3 : <<"daily", "weekly", "monthly">>[k] = t

\* the calls made for a cadence, in order, and their functions
CallsOf(t) == SelectSeq(calls, LAMBDA c : c.type = t)
ApisOf(t) == [i \in 1..Len(CallsOf(t)) |-> CallsOf(t)[i].api]

\* roster fetch, time-report fetch, then the two calls of one Slack message
CadencePattern ==
  <<"getHarvestUsers", "getHarvestTeamTimeReport", "getSlackUsers",
    "sendSlackMessage">>

\* the cadence was processed: both fetches, and the message or no Slack call
Processed(t) ==
  \/ ApisOf(t) = SubSeq(CadencePattern, 1, 2)
  \/ ApisOf(t) = CadencePattern

\* the calls of a run in which no call has failed, at any moment of it
InOrder ==
  exit \notin {"exit1", "threw"} =>
    /\ \A i, j \in 1..Len(notificationsToRun) :
         i < j => Rank(notificationsToRun[i]) < Rank(notificationsToRun[j])
    /\ \A i, j \in 1..Len(calls) :
         i < j => Rank(calls[i].type) <= Rank(calls[j].type)
    /\ \A t \in NotificationTypes :
         /\ ApisOf(t) = SubSeq(CadencePattern, 1, Len(ApisOf(t)))
         /\ ApisOf(t) # <<>> => t \in Range(notificationsToRun)
    /\ \A k \in 1..Len(notificationsToRun) :
         /\ k < idx => Processed(notificationsToRun[k])
         /\ k > idx => CallsOf(notificationsToRun[k]) = <<>>
    /\ pc = "exited" =>
         /\ idx = Len(notificationsToRun)
         /\ \A k \in 1..Len(notificationsToRun) :
              Processed(notificationsToRun[k])

\* a run that has begun and not ended awaits the call it made last, a call
\* of the cadence it is processing
CanGoOn ==
  pc \notin {"start", "exited"} =>
    /\ calls # <<>>
    /\ calls[Len(calls)].api = pc
    /\ calls[Len(calls)].type = notificationType
    /\ idx \in 1..Len(notificationsToRun)
    /\ notificationsToRun[idx] = notificationType

\* an upper bound of the steps a run has left: the calls the remaining
\* cadences can make and the midnights that can still pass
StepsLeft ==
  (MaxTicks - ticks)
  + (IF pc = "start" THEN 14
     ELSE IF pc = "exited" THEN 0
     ELSE 4 * (Len(notificationsToRun) - idx)
          + (CHOOSE k \in 1..4 : CadencePattern[5 - k] = pc))

\* C27: in a run where no call fails the active cadences are processed one
\* after another in the order daily, weekly, monthly; each has exactly one
\* roster fetch, then exactly one time-report fetch, then at most one Slack
\* message; a cadence starts only after the one before it finished; and the
\* run ends, each active cadence having been processed once (until then the
\* run awaits one call, and every step brings its end nearer).
C27_OneAfterAnother ==
  [](InOrder /\ CanGoOn) /\ [][StepsLeft' < StepsLeft]_vars

\* a run of daily, weekly and monthly that ended normally: a message for the
\* day and for the month, none for the week
C27_Witness ==
  /\ pc = "exited" /\ exit \in {"exit0", "returned"}
  /\ notificationsToRun = <<"daily", "weekly", "monthly">>
  /\ ApisOf("daily") = CadencePattern
  /\ ApisOf("weekly") = SubSeq(CadencePattern, 1, 2)
  /\ ApisOf("monthly") = CadencePattern
  /\ Len(calls) = 10

\* C28: within one run every date range is computed from the calendar day
\* on which determineNotificationsToRun decided, even when midnight passes
\* between the decision, a slow fetch and a later cadence's range; so the
\* daily range is a Monday-to-Friday day and the weekly range ends on a
\* Friday.
C28_OneCalendarDay ==
  \A c \in Range(calls) :
    LET decided == getDateRangeForNotification(c.type, startedOn)
    IN  /\ c.from = decided.from
        /\ c.to = decided.to
        /\ c.type = "daily" => ~IsWeekend(ToDay(c.from))
        /\ c.type = "weekly" => IsFriday(ToDay(c.to))

====
